---- MODULE Spec2Model ----
(***************************************************************************)
(* clawnet: the discovery daemon (src/src/daemon.rs), the wire types       *)
(* (src/src/protocol.rs) and the direct-message initiator                  *)
(* (src/src/cli/send.rs) as state machines.                                *)
(*                                                                         *)
(*   Spec      the daemon's listener loop, announcer task, peer store and  *)
(*             shutdown sequence                                           *)
(*   FairSpec  Spec with the fairness the listener task's scheduling gives *)
(*   TtlSpec   PeerInfo::is_expired applied to sampled 64-bit inputs       *)
(*   MsgSpec   the acceptor, its per-connection handlers and the `send`    *)
(*             command talking to them                                     *)
(***************************************************************************)
EXTENDS Integers, Sequences, FiniteSets, TLC

(***************************************************************************)
(* Bounds of the model.                                                    *)
(***************************************************************************)
\* gossip events the listener takes off the receiver
MaxEvents == 2
\* readings of the local clock (protocol::now_secs) run 0..MaxClock
MaxClock == 1
\* timer ticks of the announcer task
MaxAnnounce == 2
\* inbound connections the endpoint sees
MaxConns == 2

(***************************************************************************)
(* Identities and configuration.                                           *)
(***************************************************************************)
\* node.endpoint.id().to_string(): the daemon's own node id
LocalId == "n0"
PeerIds == {"n1", "n2"}
NodeIds == {LocalId} \cup PeerIds

\* Option<String>
None == << >>
Some(x) == <<x>>

\* config::load(): the values the announcer copies into each Announcement
cfg ==
  [ name |-> "local", capabilities |-> <<"chat">>, openclaw_version |-> None,
    mode |-> Some("bot"), peer_ttl |-> 1, metadata |-> {} ]

\* env!("CARGO_PKG_VERSION")
PkgVersion == "0.1.0"

(***************************************************************************)
(* Wire types (protocol.rs).  A HashMap<String,String> is a set of         *)
(* <<key, value>> pairs, a Vec a sequence.                                 *)
(***************************************************************************)
BotAnnouncement(node_id, name, capabilities, timestamp, ttl, metadata) ==
  [ type |-> "Announce", node_id |-> node_id, name |-> name,
    version |-> PkgVersion, capabilities |-> capabilities,
    openclaw_version |-> None, mode |-> None,
    timestamp |-> timestamp, ttl |-> ttl, metadata |-> metadata ]

Leave(node_id, timestamp) ==
  [ type |-> "Leave", node_id |-> node_id, timestamp |-> timestamp ]

\* The serialized form is kept at the granularity of the serde data model:
\* the variant tag followed by the fields in declaration order.
GossipMessage_to_bytes(m) ==
  IF m.type = "Announce"
    THEN << "Announce", m.node_id, m.name, m.version, m.capabilities,
            m.openclaw_version, m.mode, m.timestamp, m.ttl, m.metadata >>
    ELSE << "Leave", m.node_id, m.timestamp >>

DecodeError == [ok |-> FALSE]
Decoded(m) == [ok |-> TRUE, msg |-> m]

\* The message that the tag and the fields of b spell out: none on an unknown
\* tag and on truncated input; bytes after the last field are not looked at.
ReadTagged(b) ==
  IF Len(b) = 0 THEN DecodeError
  ELSE IF b[1] = "Announce" /\ Len(b) >= 10
    THEN Decoded([ type |-> "Announce", node_id |-> b[2], name |-> b[3],
                   version |-> b[4], capabilities |-> b[5],
                   openclaw_version |-> b[6], mode |-> b[7],
                   timestamp |-> b[8], ttl |-> b[9], metadata |-> b[10] ])
  ELSE IF b[1] = "Leave" /\ Len(b) >= 3
    THEN Decoded([ type |-> "Leave", node_id |-> b[2], timestamp |-> b[3] ])
  ELSE DecodeError

\* protocol.rs 23-25, 40-42: GossipMessage is an internally tagged enum, whose
\* derived Deserialize starts with deserialize_any; postcard, a format that
\* is not self-describing, answers that call with Err(WontImplement) whatever
\* the bytes are.  The results of from_bytes are therefore that error and,
\* were the call served, the message read from the tag and the fields.
GossipMessage_from_bytes(b) == { DecodeError, ReadTagged(b) }

\* ALPN protocol identifier for direct messaging
MSG_ALPN == "clawnet/msg/1"

\* daemon.rs 180 and send.rs 80: the largest declared length accepted
MaxMsgLen == 1024 * 1024

DirectMessage(from, content, timestamp) ==
  [ from |-> from, content |-> content, timestamp |-> timestamp ]

\* Two message texts too long to write out stand for themselves; their
\* lengths are those that make the encoded message MaxMsgLen and
\* MaxMsgLen + 1 bytes long.
BigContent == "<text of 1048569 bytes>"
HugeContent == "<text of 1048570 bytes>"

\* A sender id of 17 bytes whose bytes 16 and 17 are one character; every
\* other string of the model is ASCII.
OddId == "<15 ASCII bytes and a character of 2 bytes>"

StrLen(str) ==
  IF str = BigContent THEN MaxMsgLen - 7
  ELSE IF str = HugeContent THEN MaxMsgLen - 6
  ELSE IF str = OddId THEN 17
  ELSE Len(str)

\* str.is_char_boundary(n) for 0 < n < len
IsCharBoundary(str, n) == ~(str = OddId /\ n = 16)

\* daemon.rs 192: &msg.from[..16.min(msg.from.len())] panics when the end
\* of the slice is inside a character
SlicePanics(str) ==
  LET end == IF StrLen(str) < 16 THEN StrLen(str) ELSE 16 IN
  end < StrLen(str) /\ ~IsCharBoundary(str, end)

\* bytes of a varint(u64) holding n < 2^28
VarintLen(n) ==
  IF n < 128 THEN 1 ELSE IF n < 16384 THEN 2 ELSE IF n < 2097152 THEN 3 ELSE 4

\* length of the encoding: each string is its length as a varint followed
\* by its bytes, the timestamp a varint
EncodedLen(m) ==
  VarintLen(StrLen(m.from)) + StrLen(m.from)
  + VarintLen(StrLen(m.content)) + StrLen(m.content)
  + VarintLen(m.timestamp)

\* A byte buffer is its length and the fields it encodes.
DirectMessage_to_bytes(m) ==
  [ size |-> EncodedLen(m), fields |-> << m.from, m.content, m.timestamp >> ]

DirectMessage_from_bytes(b) ==
  IF Len(b.fields) >= 3
    THEN Decoded(DirectMessage(b.fields[1], b.fields[2], b.fields[3]))
    ELSE DecodeError

\* n bytes that do not decode, and no bytes at all
Garbage(n) == [ size |-> n, fields |-> << >> ]
NoBytes == Garbage(0)

(***************************************************************************)
(* What the overlay can deliver to the listener.                           *)
(***************************************************************************)
\* The producer's timestamp is read off the producer's clock: 0 coincides
\* with a reading of the local clock, MaxClock + 5 lies outside its range.
RemoteAnnouncements ==
  { BotAnnouncement(n, "alpha", <<"chat">>, 0, 1, {<<"role", "bot">>}) : n \in NodeIds }
  \cup
  { BotAnnouncement(n, "beta", << >>, MaxClock + 5, 3, {}) : n \in NodeIds }

RemoteLeaves == { Leave(n, MaxClock + 5) : n \in NodeIds }

Malformed == { << "Bogus", "n1", 0 >>, << "Announce", "n1", "alpha", PkgVersion >> }

Payloads ==
  { GossipMessage_to_bytes(m) : m \in RemoteAnnouncements \cup RemoteLeaves }
  \cup Malformed

(***************************************************************************)
(* State.                                                                  *)
(***************************************************************************)
VARIABLES
  lpc,                 \* listener: "select", "exited", "shutdown", "stopped"
  running,             \* DaemonState.running
  announcements_sent,  \* DaemonState.announcements_sent
  peers_discovered,    \* DaemonState.peers_discovered
  store,               \* the peer store: a set of PeerInfo records
  now,                 \* protocol::now_secs() on the local clock
  sigint,              \* an interrupt was delivered and is not yet observed
  lastBroadcast,       \* the last broadcast handed to the gossip sender
  leaveSent,           \* history: node ids of the LeaveNotices broadcast
  nAnnOk,              \* history: Announcement broadcasts that succeeded
  nrecv,               \* events the listener has taken off the receiver
  nticks,              \* timer ticks the announcer has seen
  lastEvent,           \* history: the last event the listener matched,
                       \* what from_bytes made of its payload and, for an
                       \* Announcement, the records its node id had before
  announced,           \* history: node ids of the Announcements it decoded
  upserted,            \* history: node ids handed to store::upsert
  exitCause,           \* history: the select arm that left the loop
  sigObserved,         \* history: the ctrl_c arm has run
  apc,                 \* accept_loop: "accept", "ended"
  conns,               \* inbound connections, in order of arrival
  ini,                 \* the `send` command (cli/send.rs)
  cli,                 \* main.rs 8: the parsed command line
  probe,               \* a PeerInfo and a clock reading given to is_expired
  verdict,             \* what is_expired made of probe
  sample,              \* a message given to to_bytes
  decoded              \* what from_bytes made of the bytes of sample

dvars ==
  << lpc, running, announcements_sent, peers_discovered, store, now, sigint,
     lastBroadcast, leaveSent, nAnnOk, nrecv, nticks, lastEvent, announced,
     upserted, exitCause, sigObserved >>

mvars == << apc, conns, ini, cli >>

tvars == << probe, verdict, sample, decoded >>

vars == << dvars, mvars, tvars >>

(***************************************************************************)
(* Peer store (crate::store).                                              *)
(***************************************************************************)
\* inserts or fully replaces the record keyed by node_id
upsert(s, peer) == { p \in s : p.node_id # peer.node_id } \cup {peer}

\* list(all): the records in an order fixed for a given store
list_all(s) ==
  CHOOSE q \in [1..Cardinality(s) -> s] : \A i, j \in 1..Cardinality(s) : q[i] = q[j] => i = j

(***************************************************************************)
(* DaemonState::new and the start of run.                                  *)
(***************************************************************************)
DaemonState_new ==
  /\ running = TRUE
  /\ announcements_sent = 0
  /\ peers_discovered = 0

\* The peer store starts empty, as after clear().
DaemonInit ==
  /\ DaemonState_new
  /\ lpc = "select"
  /\ store = {}
  /\ now = 0
  /\ sigint = FALSE
  /\ lastBroadcast = [ok |-> FALSE, bytes |-> << >>]
  /\ leaveSent = {}
  /\ nAnnOk = 0
  /\ nrecv = 0
  /\ nticks = 0
  /\ lastEvent = [ev |-> "none", afterSkip |-> FALSE]
  /\ announced = {}
  /\ upserted = {}
  /\ exitCause = "none"
  /\ sigObserved = FALSE

(***************************************************************************)
(* Environment: the clock and the interrupt.                               *)
(***************************************************************************)
Tick ==
  /\ now < MaxClock
  /\ now' = now + 1
  /\ UNCHANGED << lpc, running, announcements_sent, peers_discovered, store,
                  sigint, lastBroadcast, leaveSent, nAnnOk, nrecv, nticks,
                  lastEvent, announced, upserted, exitCause, sigObserved >>
  /\ UNCHANGED << mvars, tvars >>

Interrupt ==
  /\ lpc # "stopped"
  /\ ~sigint
  /\ ~sigObserved
  /\ sigint' = TRUE
  /\ UNCHANGED << lpc, running, announcements_sent, peers_discovered, store,
                  now, lastBroadcast, leaveSent, nAnnOk, nrecv, nticks,
                  lastEvent, announced, upserted, exitCause, sigObserved >>
  /\ UNCHANGED << mvars, tvars >>

(***************************************************************************)
(* Announcer task (daemon.rs 60-83).  The task is spawned and its handle   *)
(* dropped; nothing in run stops it or reads running, so its timer ticks   *)
(* until the runtime drops the task after run has returned.                *)
(***************************************************************************)
BuildAnnouncement(t) ==
  [ type |-> "Announce", node_id |-> LocalId, name |-> cfg.name,
    version |-> PkgVersion, capabilities |-> cfg.capabilities,
    openclaw_version |-> cfg.openclaw_version, mode |-> cfg.mode,
    timestamp |-> t, ttl |-> cfg.peer_ttl, metadata |-> cfg.metadata ]

\* announcements_sent after a broadcast that ended ok / not ok
AfterBroadcastMutant(n, ok) == n + 1
AfterBroadcast(n, ok) == IF ok THEN n + 1 ELSE n

AnnounceTick ==
  /\ lpc # "stopped"
  /\ nticks < MaxAnnounce
  /\ nticks' = nticks + 1
  /\ \E ok \in BOOLEAN :
       /\ lastBroadcast' = [ok |-> ok, bytes |-> GossipMessage_to_bytes(BuildAnnouncement(now))]
       /\ nAnnOk' = IF ok THEN nAnnOk + 1 ELSE nAnnOk
       /\ announcements_sent' = AfterBroadcast(announcements_sent, ok)
  /\ UNCHANGED << lpc, running, peers_discovered, store, now, sigint, nrecv,
                  leaveSent, lastEvent, announced, upserted, exitCause,
                  sigObserved >>
  /\ UNCHANGED << mvars, tvars >>

(***************************************************************************)
(* Listener loop (daemon.rs 88-140).                                       *)
(***************************************************************************)
\* daemon.rs 126-128, 131: the event e was one the listener skips, a payload
\* that does not decode or an event other than Received
Skipped(e) ==
  \/ e.ev = "Other"
  \/ e.ev = "Received" /\ ~e.result.ok

\* daemon.rs 105: the self-filter
IsSelfMutant(ann) == FALSE
IsSelf(ann) == ann.node_id = LocalId

\* daemon.rs 110-118: the record built from an Announcement at local time t
MkPeerInfoKeyMutant(ann, t) ==
  [ node_id |-> ann.name, name |-> ann.name, capabilities |-> ann.capabilities,
    last_seen |-> t, ttl |-> ann.ttl, addresses |-> << >>,
    metadata |-> ann.metadata ]
MkPeerInfoClockMutant(ann, t) ==
  [ node_id |-> ann.node_id, name |-> ann.name,
    capabilities |-> ann.capabilities, last_seen |-> ann.timestamp,
    ttl |-> ann.ttl, addresses |-> << >>, metadata |-> ann.metadata ]
MkPeerInfo(ann, t) ==
  [ node_id |-> ann.node_id, name |-> ann.name,
    capabilities |-> ann.capabilities, last_seen |-> t, ttl |-> ann.ttl,
    addresses |-> << >>, metadata |-> ann.metadata ]

\* daemon.rs 110-119: the store after the listener has handed the record of
\* an Announcement to store::upsert
UpsertAnnouncedMutant(s, ann, t) ==
  IF \E p \in s : p.node_id = ann.node_id THEN s ELSE upsert(s, MkPeerInfo(ann, t))
UpsertAnnounced(s, ann, t) == upsert(s, MkPeerInfo(ann, t))

\* daemon.rs 122-125: the store after a LeaveNotice for node_id
OnLeaveMutant(s, node_id) == { p \in s : p.node_id # node_id }
OnLeave(s, node_id) == s

\* daemon.rs 119-120: peers_discovered after store::upsert has returned; its
\* result is dropped
AfterUpsertMutant(n, ok) == IF ok THEN n + 1 ELSE n
AfterUpsert(n, ok) == n + 1

\* daemon.rs 102-121: Received, decodes as Announce; stored tells whether
\* store::upsert returns Ok, having replaced the record, or Err, having
\* left the store as it was
AnnounceArm(stored) ==
  /\ lpc = "select"
  /\ nrecv < MaxEvents
  /\ \E c \in Payloads : \E r \in GossipMessage_from_bytes(c) :
       /\ r.ok
       /\ r.msg.type = "Announce"
       /\ stored \/ ~IsSelf(r.msg)
       /\ lastEvent' = [ev |-> "Received", result |-> r,
                       afterSkip |-> Skipped(lastEvent),
                       replaced |-> { p \in store : p.node_id = r.msg.node_id },
                       stored |-> stored /\ ~IsSelf(r.msg)]
       /\ announced' = announced \cup {r.msg.node_id}
       /\ IF IsSelf(r.msg)
            THEN UNCHANGED << store, peers_discovered, upserted >>
            ELSE /\ store' = IF stored THEN UpsertAnnounced(store, r.msg, now)
                                       ELSE store
                 /\ upserted' = upserted \cup {MkPeerInfo(r.msg, now).node_id}
                 /\ peers_discovered' = AfterUpsert(peers_discovered, stored)
  /\ nrecv' = nrecv + 1
  /\ UNCHANGED << lpc, running, announcements_sent, now, sigint,
                  lastBroadcast, leaveSent, nAnnOk, nticks, exitCause,
                  sigObserved >>
  /\ UNCHANGED << mvars, tvars >>

\* the Announce arm over the store of the specification, whose upsert always
\* succeeds
ReceiveAnnounce == AnnounceArm(TRUE)

\* the Announce arm over a store whose upsert returns Err
ReceiveAnnounceStoreErr == AnnounceArm(FALSE)

\* daemon.rs 122-125: Received, decodes as Leave
ReceiveLeave ==
  /\ lpc = "select"
  /\ nrecv < MaxEvents
  /\ \E c \in Payloads : \E r \in GossipMessage_from_bytes(c) :
       /\ r.ok
       /\ r.msg.type = "Leave"
       /\ lastEvent' = [ev |-> "Received", result |-> r,
                       afterSkip |-> Skipped(lastEvent)]
       /\ store' = OnLeave(store, r.msg.node_id)
  /\ nrecv' = nrecv + 1
  /\ UNCHANGED << lpc, running, announcements_sent, peers_discovered, now,
                  sigint, lastBroadcast, leaveSent, nAnnOk, nticks, announced,
                  upserted, exitCause, sigObserved >>
  /\ UNCHANGED << mvars, tvars >>

\* daemon.rs 126-131: where the arms that skip an event leave the listener
AfterSkipMutant == "exited"
AfterSkip == "select"

\* daemon.rs 126-128: Received, does not decode
ReceiveUndecodable ==
  /\ lpc = "select"
  /\ nrecv < MaxEvents
  /\ \E c \in Payloads : \E r \in GossipMessage_from_bytes(c) :
       /\ ~r.ok
       /\ lastEvent' = [ev |-> "Received", result |-> r,
                       afterSkip |-> Skipped(lastEvent)]
  /\ nrecv' = nrecv + 1
  /\ lpc' = AfterSkip
  /\ UNCHANGED << running, announcements_sent, peers_discovered, store,
                  now, sigint, lastBroadcast, leaveSent, nAnnOk, nticks,
                  announced, upserted, exitCause, sigObserved >>
  /\ UNCHANGED << mvars, tvars >>

\* daemon.rs 131: any other event (NeighborUp, NeighborDown, Lagged)
ReceiveOther ==
  /\ lpc = "select"
  /\ nrecv < MaxEvents
  /\ lastEvent' = [ev |-> "Other", afterSkip |-> Skipped(lastEvent)]
  /\ nrecv' = nrecv + 1
  /\ lpc' = AfterSkip
  /\ UNCHANGED << running, announcements_sent, peers_discovered, store,
                  now, sigint, lastBroadcast, leaveSent, nAnnOk, nticks,
                  announced, upserted, exitCause, sigObserved >>
  /\ UNCHANGED << mvars, tvars >>

\* daemon.rs 132: the receiver has ended
ReceiveClosed ==
  /\ lpc = "select"
  /\ lpc' = "exited"
  /\ lastEvent' = [ev |-> "Closed", afterSkip |-> Skipped(lastEvent)]
  /\ exitCause' = "closed"
  /\ UNCHANGED << running, announcements_sent, peers_discovered, store, now,
                  sigint, lastBroadcast, leaveSent, nAnnOk, nrecv, nticks,
                  announced, upserted, sigObserved >>
  /\ UNCHANGED << mvars, tvars >>

\* daemon.rs 133-136: the receiver yields an error
ReceiveError ==
  /\ lpc = "select"
  /\ lpc' = "exited"
  /\ lastEvent' = [ev |-> "Error", afterSkip |-> Skipped(lastEvent)]
  /\ exitCause' = "error"
  /\ UNCHANGED << running, announcements_sent, peers_discovered, store, now,
                  sigint, lastBroadcast, leaveSent, nAnnOk, nrecv, nticks,
                  announced, upserted, sigObserved >>
  /\ UNCHANGED << mvars, tvars >>

\* daemon.rs 98: where the ctrl_c arm leaves the listener
AfterCtrlCMutant == "select"
AfterCtrlC == "exited"

\* daemon.rs 90-99: the ctrl_c arm; the result of the broadcast is dropped
CtrlC ==
  /\ lpc = "select"
  /\ sigint
  /\ sigint' = FALSE
  /\ sigObserved' = TRUE
  /\ \E ok \in BOOLEAN :
       lastBroadcast' = [ok |-> ok, bytes |-> GossipMessage_to_bytes(Leave(LocalId, now))]
  /\ leaveSent' = leaveSent \cup {Leave(LocalId, now).node_id}
  /\ lpc' = AfterCtrlC
  /\ exitCause' = "signal"
  /\ UNCHANGED << running, announcements_sent, peers_discovered, store, now,
                  nAnnOk, nrecv, nticks, lastEvent, announced, upserted >>
  /\ UNCHANGED << mvars, tvars >>

\* daemon.rs 142: the value stored into running after the loop
RunningAfterLoopMutant == TRUE
RunningAfterLoop == FALSE

\* daemon.rs 142
StoreRunningFalse ==
  /\ lpc = "exited"
  /\ running' = RunningAfterLoop
  /\ lpc' = "shutdown"
  /\ UNCHANGED << announcements_sent, peers_discovered, store, now, sigint,
                  lastBroadcast, leaveSent, nAnnOk, nrecv, nticks, lastEvent,
                  announced, upserted, exitCause, sigObserved >>
  /\ UNCHANGED << mvars, tvars >>

\* daemon.rs 143-144: node.shutdown() and the return from run, after which
\* the runtime drops every spawned task, whatever shutdown returned
NodeShutdown ==
  /\ lpc = "shutdown"
  /\ lpc' = "stopped"
  /\ UNCHANGED << running, announcements_sent, peers_discovered, store, now,
                  sigint, lastBroadcast, leaveSent, nAnnOk, nrecv, nticks,
                  lastEvent, announced, upserted, exitCause, sigObserved >>
  /\ UNCHANGED << mvars, tvars >>

(***************************************************************************)
(* PeerInfo::is_expired (protocol.rs 59-68).  A u64 is four 16-bit limbs,  *)
(* most significant first, so that the sum keeps its 64-bit width.         *)
(***************************************************************************)
LimbBase == 2^16

U64(n) == << 0, 0, 0, n >>
U64Max == << LimbBase - 1, LimbBase - 1, LimbBase - 1, LimbBase - 1 >>

\* x + y as the 64-bit sum and the carry out of bit 63
AddU64(x, y) ==
  LET s4 == x[4] + y[4]
      s3 == x[3] + y[3] + (s4 \div LimbBase)
      s2 == x[2] + y[2] + (s3 \div LimbBase)
      s1 == x[1] + y[1] + (s2 \div LimbBase)
  IN  [ carry |-> s1 \div LimbBase,
        sum |-> << s1 % LimbBase, s2 % LimbBase, s3 % LimbBase, s4 % LimbBase >> ]

\* x > y on limb sequences of one length
GtLimbs(x, y) ==
  \E i \in 1..Len(x) : x[i] > y[i] /\ \A j \in 1..(i - 1) : x[j] = y[j]

NoVerdict == [ called |-> FALSE, panic |-> FALSE, value |-> FALSE ]
Returned(b) == [ called |-> TRUE, panic |-> FALSE, value |-> b ]
Panicked == [ called |-> TRUE, panic |-> TRUE, value |-> FALSE ]

\* `now > self.last_seen + self.ttl` on u64: when the sum overflows, a build
\* with overflow checks panics and a build without them compares with the
\* wrapped sum.
is_expired(peer, t) ==
  LET a == AddU64(peer.last_seen, peer.ttl) IN
  IF a.carry = 0
    THEN { Returned(GtLimbs(t, a.sum)) }
    ELSE { Panicked, Returned(GtLimbs(t, a.sum)) }

\* 1700000000, a present-day reading of the clock in seconds
ClockReading == << 0, 0, 25939, 61696 >>

U64Samples ==
  { U64(0), U64(1), U64(2), ClockReading,
    << 0, 0, 25939, 61697 >>, << LimbBase \div 2, 0, 0, 0 >>,
    << LimbBase - 1, LimbBase - 1, LimbBase - 1, LimbBase - 2 >>, U64Max }

NoProbe == [ last_seen |-> U64(0), ttl |-> U64(0), now |-> U64(0) ]

TtlIdle ==
  /\ probe = NoProbe
  /\ verdict = NoVerdict

(***************************************************************************)
(* Direct messages: the acceptor and its handlers (daemon.rs 148-214) and  *)
(* the `send` command (cli/send.rs).                                       *)
(***************************************************************************)
\* send.rs 52: seconds the initiator waits for the response
SendTimeoutSecs == 5

\* the node id of the node that `send` spawns for itself
SenderId == "n9"

Contents == { "ping", BigContent, HugeContent }

\* the well-formed requests of a peer other than `send`
RawRequests ==
  { DirectMessage("n1", BigContent, 0), DirectMessage("n1", HugeContent, 0),
    DirectMessage(OddId, "ping", 0) }

\* what such a peer may put into the length prefix
RawLens == { EncodedLen(m) : m \in RawRequests }

\* the well-formed request of the given encoded length
RawRequest(n) ==
  DirectMessage_to_bytes(CHOOSE m \in RawRequests : EncodedLen(m) = n)

\* a connection as the endpoint first sees it
Incoming(client, alpn) ==
  [ client |-> client, alpn |-> alpn, hpc |-> "queued", len |-> -1,
    buf |-> NoBytes, bodyRead |-> FALSE, rejected |-> FALSE,
    panicked |-> FALSE, reply |-> << >> ]

\* one length-prefixed message on a stream
Frame(bytes) == [ len |-> bytes.size, bytes |-> bytes ]

NoFrame == [ len |-> 0, bytes |-> NoBytes ]

\* tries counts the calls of connect, open_bi and the two write_all;
\* failedAt, readEnd and frame record the call that returned an error, the
\* way the wait for the response ended and the frame it read
IniIdle ==
  [ pc |-> "idle", target |-> "", content |-> "", conn |-> 0,
    bytes |-> NoBytes, wroteLen |-> FALSE, wroteBody |-> FALSE,
    closed |-> FALSE, waited |-> 0, response |-> None, status |-> "",
    exit |-> -1, errOut |-> "", failedAt |-> "", readEnd |-> "",
    frame |-> NoFrame,
    tries |-> [ connect |-> 0, open_bi |-> 0, write_len |-> 0, write_body |-> 0 ] ]

\* cli::Cli: the global --json flag
Cli(json) == [ json |-> json ]

MsgIdle ==
  /\ apc = "accept"
  /\ conns = << >>
  /\ ini = IniIdle
  /\ cli = Cli(FALSE)

\* main.rs 21-25: the exit code of the process
ExitCodeMutant(ok) == 0
ExitCode(ok) == IF ok THEN 0 ELSE 1

\* crate::output::print_error(e, json): a JSON envelope or plain text
print_error(json) == IF json THEN "json" ELSE "text"

\* main.rs 23: the call of print_error in main
MainPrintError == print_error(FALSE)

\* the `?` of run: the call named op returned Err, which main surfaces
Failed(i, op) ==
  [i EXCEPT !.pc = "exit", !.failedAt = op, !.closed = TRUE,
            !.exit = ExitCode(FALSE), !.errOut = MainPrintError]

EndpointOpen == lpc # "stopped"

\* ---- peers other than `send` ----
RawConnect ==
  /\ EndpointOpen
  /\ Len(conns) < MaxConns
  /\ \E a \in { MSG_ALPN, "other/1" } : conns' = Append(conns, Incoming("raw", a))
  /\ UNCHANGED << apc, ini, dvars, tvars, cli >>

\* ---- accept_loop ----
\* daemon.rs 156: the handler is spawned as a task of its own, so that the
\* loop is back at accept() whatever the handlers spawned before are doing
BackAtAcceptMutant == \A i \in 1..Len(conns) : conns[i].hpc \in {"queued", "done"}
BackAtAccept == TRUE

\* daemon.rs 151-157: accept the oldest waiting connection, spawn its handler
Accept ==
  /\ apc = "accept"
  /\ EndpointOpen
  /\ BackAtAccept
  /\ \E i \in 1..Len(conns) :
       /\ conns[i].hpc = "queued"
       /\ \A j \in 1..(i - 1) : conns[j].hpc # "queued"
       /\ conns' = [conns EXCEPT ![i].hpc = "incoming"]
  /\ UNCHANGED << apc, ini, dvars, tvars, cli >>

\* daemon.rs 151-154: accept() yields None once the endpoint is closed
AcceptorEnd ==
  /\ apc = "accept"
  /\ ~EndpointOpen
  /\ apc' = "ended"
  /\ UNCHANGED << conns, ini, dvars, tvars, cli >>

\* ---- the handler of connection i ----
\* daemon.rs 167
AlpnMatches(alpn) == alpn = MSG_ALPN

\* daemon.rs 180
TooLargeMutant(len) == len >= 1024 * 1024
TooLarge(len) == len > 1024 * 1024

\* daemon.rs 197-201
Ack(t) == DirectMessage(LocalId, "received", t)

\* daemon.rs 158-170: the handshake, then the protocol tag
HandlerHandshake(i) ==
  /\ EndpointOpen
  /\ conns[i].hpc = "incoming"
  /\ \E ok \in BOOLEAN :
       conns' = [conns EXCEPT ![i].hpc =
                   IF ok /\ AlpnMatches(conns[i].alpn) THEN "accept_bi" ELSE "done"]
  /\ UNCHANGED << apc, ini, dvars, tvars, cli >>

\* What the stream of connection i holds for the handler: what `send` has
\* written when it is the peer, anything when another peer is.  A read
\* fails once the peer is gone; a handler whose peer has sent nothing and
\* stays is blocked.
PeerOpened(i) ==
  IF conns[i].client = "send" THEN ini.conn = i /\ ini.wroteLen ELSE TRUE
PeerGone(i) ==
  IF conns[i].client = "send" THEN ini.conn # i \/ ini.closed ELSE TRUE
PeerLens(i) ==
  IF conns[i].client = "send"
    THEN IF ini.conn = i /\ ini.wroteLen THEN { ini.bytes.size } ELSE {}
    ELSE RawLens
PeerBodies(i) ==
  IF conns[i].client = "send"
    THEN IF ini.conn = i /\ ini.wroteBody THEN { ini.bytes } ELSE {}
    ELSE { Garbage(conns[i].len), RawRequest(conns[i].len) }

\* daemon.rs 172-173, 208-210
HandlerAcceptBi(i) ==
  /\ EndpointOpen
  /\ conns[i].hpc = "accept_bi"
  /\ \/ /\ PeerOpened(i)
        /\ conns' = [conns EXCEPT ![i].hpc = "read_len"]
     \/ /\ PeerGone(i)
        /\ conns' = [conns EXCEPT ![i].hpc = "done"]
  /\ UNCHANGED << apc, ini, dvars, tvars, cli >>

\* daemon.rs 175-182: the length prefix and the guard on it
HandlerReadLen(i) ==
  /\ EndpointOpen
  /\ conns[i].hpc = "read_len"
  /\ \/ \E n \in PeerLens(i) :
          conns' = [conns EXCEPT ![i].len = n,
                                 ![i].rejected = TooLarge(n),
                                 ![i].hpc = IF TooLarge(n) THEN "done" ELSE "read_body"]
     \/ /\ PeerGone(i)
        /\ conns' = [conns EXCEPT ![i].hpc = "done"]
  /\ UNCHANGED << apc, ini, dvars, tvars, cli >>

\* daemon.rs 183-206: the payload, the decoding, the line printed for the
\* message and the acknowledgment; a panic while printing ends the handler's
\* task; the results of both writes and of finish are dropped
HandlerReadBody(i) ==
  /\ EndpointOpen
  /\ conns[i].hpc = "read_body"
  /\ \/ \E b \in PeerBodies(i) :
          LET r == DirectMessage_from_bytes(b)
              panics == r.ok /\ SlicePanics(r.msg.from)
          IN
          conns' = [conns EXCEPT
                      ![i].buf = b,
                      ![i].bodyRead = TRUE,
                      ![i].panicked = panics,
                      ![i].reply = IF r.ok /\ ~panics
                                     THEN << Frame(DirectMessage_to_bytes(Ack(now))) >>
                                     ELSE << >>,
                      ![i].hpc = "done"]
     \/ /\ PeerGone(i)
        /\ conns' = [conns EXCEPT ![i].hpc = "done"]
  /\ UNCHANGED << apc, ini, dvars, tvars, cli >>

\* ---- the `send` command ----
\* send.rs 8-13: the node of its own, then the target's node id parsed
SendStart ==
  /\ ini.pc = "idle"
  /\ \E t \in { LocalId, "n7", "not-a-node-id" }, ok \in BOOLEAN :
       ini' = IF ~ok THEN Failed([ini EXCEPT !.target = t], "spawn")
              ELSE IF t = "not-a-node-id"
                THEN Failed([ini EXCEPT !.target = t], "parse")
              ELSE [ini EXCEPT !.pc = "connect", !.target = t]
  /\ UNCHANGED << apc, conns, dvars, tvars, cli >>

\* send.rs 19-23, the target being this daemon: connect succeeds only to an
\* endpoint that is there; the connection then waits for accept_loop, whose
\* side of the handshake may still fail
SendConnect ==
  /\ ini.pc = "connect"
  /\ \/ /\ ini.target = LocalId
        /\ EndpointOpen
        /\ Len(conns) < MaxConns
        /\ conns' = Append(conns, Incoming("send", MSG_ALPN))
        /\ ini' = [ini EXCEPT !.pc = "open_bi", !.conn = Len(conns) + 1,
                              !.tries.connect = @ + 1]
     \/ /\ ini' = Failed([ini EXCEPT !.tries.connect = @ + 1], "connect")
        /\ UNCHANGED conns
  /\ UNCHANGED << apc, dvars, tvars, cli >>

\* send.rs 19-23, the target being a node other than this daemon, which
\* answers as it likes
SendConnectPeer ==
  /\ ini.pc = "connect"
  /\ ini.target # LocalId
  /\ ini' = [ini EXCEPT !.pc = "open_bi", !.tries.connect = @ + 1]
  /\ UNCHANGED << apc, conns, dvars, tvars, cli >>

\* send.rs 25-37: the stream, then the message built from the text given
\* on the command line, and its bytes
SendOpenBi ==
  /\ ini.pc = "open_bi"
  /\ \E ok \in BOOLEAN, c \in Contents :
       ini' = IF ok
                THEN [ini EXCEPT !.pc = "write_len", !.content = c,
                                 !.tries.open_bi = @ + 1,
                                 !.bytes = DirectMessage_to_bytes(
                                             DirectMessage(SenderId, c, now))]
                ELSE Failed([ini EXCEPT !.tries.open_bi = @ + 1], "open_bi")
  /\ UNCHANGED << apc, conns, dvars, tvars, cli >>

\* send.rs 40-43
SendWriteLen ==
  /\ ini.pc = "write_len"
  /\ \E ok \in BOOLEAN :
       ini' = IF ok
                THEN [ini EXCEPT !.pc = "write_body", !.wroteLen = TRUE,
                                 !.tries.write_len = @ + 1]
                ELSE Failed([ini EXCEPT !.tries.write_len = @ + 1], "write_len")
  /\ UNCHANGED << apc, conns, dvars, tvars, cli >>

\* send.rs 44-48: the bytes, then finish
SendWriteBody ==
  /\ ini.pc = "write_body"
  /\ \E ok \in BOOLEAN, fin \in BOOLEAN :
       ini' = IF ~ok
                THEN Failed([ini EXCEPT !.tries.write_body = @ + 1], "write_body")
              ELSE IF ~fin
                THEN Failed([ini EXCEPT !.tries.write_body = @ + 1,
                                        !.wroteBody = TRUE], "finish")
              ELSE [ini EXCEPT !.pc = "read", !.wroteBody = TRUE,
                               !.tries.write_body = @ + 1]
  /\ UNCHANGED << apc, conns, dvars, tvars, cli >>

\* a second of the initiator's wait goes by
SendWait ==
  /\ ini.pc = "read"
  /\ ini.waited < SendTimeoutSecs
  /\ ini' = [ini EXCEPT !.waited = ini.waited + 1]
  /\ UNCHANGED << apc, conns, dvars, tvars, cli >>

\* send.rs 76-87: what read_response makes of a frame
read_response(frame) ==
  IF frame.len > 1024 * 1024 THEN DecodeError
  ELSE IF DirectMessage_from_bytes(frame.bytes).ok
    THEN [ ok |-> TRUE, content |-> DirectMessage_from_bytes(frame.bytes).msg.content ]
  ELSE DecodeError

\* send.rs 56-59: the response kept from the outcome of the timed read
ResponseMutant(r) == IF r.ok THEN Some(r.content) ELSE Some("")
Response(r) == IF r.ok THEN Some(r.content) ELSE None

\* the read returned an error; the timeout elapsed
ReadFailed == [ok |-> FALSE]
Elapsed == [ok |-> FALSE]

\* what a node other than this daemon may answer: an acknowledgment, a text
\* of its own, a frame declaring one byte more than MaxMsgLen, and bytes
\* that do not decode
PeerFrames ==
  { Frame(DirectMessage_to_bytes(DirectMessage("n7", "received", 0))),
    Frame(DirectMessage_to_bytes(DirectMessage("n7", "pong", 0))),
    [ len |-> MaxMsgLen + 1, bytes |-> Garbage(MaxMsgLen + 1) ],
    Frame(Garbage(4)) }

\* the frames the response stream of `send` holds
ResponseFrames ==
  IF ini.conn = 0 THEN PeerFrames
  ELSE { conns[ini.conn].reply[k] : k \in 1..Len(conns[ini.conn].reply) }

\* the responder has dropped the connection, or its endpoint is gone
ResponderGone ==
  IF ini.conn = 0 THEN TRUE
  ELSE conns[ini.conn].hpc = "done" \/ ~EndpointOpen

\* send.rs 51-59: a response frame arrived within the timeout
SendReadFrame ==
  /\ ini.pc = "read"
  /\ \E f \in ResponseFrames :
       ini' = [ini EXCEPT !.pc = "print", !.readEnd = "frame", !.frame = f,
                          !.response = Response(read_response(f))]
  /\ UNCHANGED << apc, conns, dvars, tvars, cli >>

\* send.rs 51-59: the read fails
SendReadFails ==
  /\ ini.pc = "read"
  /\ ResponderGone
  /\ ini' = [ini EXCEPT !.pc = "print", !.readEnd = "failed",
                        !.response = Response(ReadFailed)]
  /\ UNCHANGED << apc, conns, dvars, tvars, cli >>

\* send.rs 51-59: the timeout elapses
SendTimeout ==
  /\ ini.pc = "read"
  /\ ini.waited = SendTimeoutSecs
  /\ ini' = [ini EXCEPT !.pc = "print", !.readEnd = "timeout",
                        !.response = Response(Elapsed)]
  /\ UNCHANGED << apc, conns, dvars, tvars, cli >>

\* send.rs 61-73: the output, the close and the shutdown of its node
SendPrint ==
  /\ ini.pc = "print"
  /\ \E ok \in BOOLEAN :
       ini' = IF ok
                THEN [ini EXCEPT !.pc = "exit", !.status = "sent",
                                 !.closed = TRUE, !.exit = ExitCode(TRUE)]
                ELSE Failed([ini EXCEPT !.status = "sent"], "shutdown")
  /\ UNCHANGED << apc, conns, dvars, tvars, cli >>

(***************************************************************************)
(* to_bytes followed by from_bytes (protocol.rs 33-43, 78-86).             *)
(***************************************************************************)
NoSample == [ kind |-> "none", msg |-> << >> ]
NotDecoded == [ called |-> FALSE, result |-> DecodeError ]

CodecIdle ==
  /\ sample = NoSample
  /\ decoded = NotDecoded

\* timestamps: readings of the clock and values around the lengths at which
\* the encoding of an integer grows
Timestamps == (0..MaxClock) \cup { 127, 128, 16384, 2147483647 }

\* the Announcements of this daemon and of others, and LeaveNotices
GossipSamples ==
  RemoteAnnouncements \cup RemoteLeaves
  \cup { BuildAnnouncement(t) : t \in 0..MaxClock }
  \cup { Leave(n, t) : n \in NodeIds, t \in 0..MaxClock }

DirectSamples ==
  { DirectMessage(f, c, t) :
      f \in { SenderId, LocalId }, c \in Contents \cup { "received", "" },
      t \in Timestamps }

GossipRoundTrip ==
  /\ sample.kind = "gossip"
  /\ ~decoded.called
  /\ \E r \in GossipMessage_from_bytes(GossipMessage_to_bytes(sample.msg)) :
       decoded' = [ called |-> TRUE, result |-> r ]
  /\ UNCHANGED << sample, probe, verdict, dvars, mvars >>

DirectRoundTrip ==
  /\ sample.kind = "direct"
  /\ ~decoded.called
  /\ decoded' = [ called |-> TRUE,
                  result |-> DirectMessage_from_bytes(DirectMessage_to_bytes(sample.msg)) ]
  /\ UNCHANGED << sample, probe, verdict, dvars, mvars >>

IsExpiredCall ==
  /\ ~verdict.called
  /\ verdict' \in is_expired(probe, probe.now)
  /\ UNCHANGED << probe, sample, decoded, dvars, mvars >>

MsgInit == DaemonInit /\ MsgIdle /\ TtlIdle /\ CodecIdle

MsgNext ==
  \/ RawConnect
  \/ Accept
  \/ AcceptorEnd
  \/ \E i \in 1..Len(conns) : HandlerHandshake(i)
  \/ \E i \in 1..Len(conns) : HandlerAcceptBi(i)
  \/ \E i \in 1..Len(conns) : HandlerReadLen(i)
  \/ \E i \in 1..Len(conns) : HandlerReadBody(i)
  \/ SendStart
  \/ SendConnect
  \/ SendOpenBi
  \/ SendWriteLen
  \/ SendWriteBody
  \/ SendWait
  \/ SendReadFrame
  \/ SendReadFails
  \/ SendTimeout
  \/ SendPrint
  \/ ReceiveClosed
  \/ StoreRunningFalse
  \/ NodeShutdown

MsgSpec == MsgInit /\ [][MsgNext]_vars

TtlInit ==
  /\ DaemonInit
  /\ MsgIdle
  /\ probe \in [ last_seen : U64Samples, ttl : U64Samples, now : U64Samples ]
  /\ verdict = NoVerdict
  /\ CodecIdle

TtlNext == IsExpiredCall

TtlSpec == TtlInit /\ [][TtlNext]_vars

\* to_bytes and from_bytes applied to sampled messages.
CodecInit ==
  /\ DaemonInit
  /\ MsgIdle
  /\ TtlIdle
  /\ sample \in { [ kind |-> "gossip", msg |-> m ] : m \in GossipSamples }
               \cup { [ kind |-> "direct", msg |-> m ] : m \in DirectSamples }
  /\ decoded = NotDecoded

CodecNext == GossipRoundTrip \/ DirectRoundTrip

CodecSpec == CodecInit /\ [][CodecNext]_vars

\* The `send` command against a node other than this daemon, with and
\* without --json.
SendInit ==
  /\ DaemonInit
  /\ TtlIdle
  /\ CodecIdle
  /\ apc = "accept"
  /\ conns = << >>
  /\ ini = IniIdle
  /\ cli \in { Cli(j) : j \in BOOLEAN }

SendNext ==
  \/ Tick
  \/ SendStart
  \/ SendConnectPeer
  \/ SendOpenBi
  \/ SendWriteLen
  \/ SendWriteBody
  \/ SendWait
  \/ SendReadFrame
  \/ SendReadFails
  \/ SendTimeout
  \/ SendPrint

SendSpec == SendInit /\ [][SendNext]_vars

(***************************************************************************)
(* The daemon.                                                             *)
(***************************************************************************)
Init == DaemonInit /\ MsgIdle /\ TtlIdle /\ CodecIdle

Next ==
  \/ Tick
  \/ Interrupt
  \/ AnnounceTick
  \/ ReceiveAnnounce
  \/ ReceiveLeave
  \/ ReceiveUndecodable
  \/ ReceiveOther
  \/ ReceiveClosed
  \/ ReceiveError
  \/ CtrlC
  \/ StoreRunningFalse
  \/ NodeShutdown

Spec == Init /\ [][Next]_vars

\* The listener's Announce arm next to the announcer, the acceptor and the
\* connection handlers.  The run is taken up where every tick of the timer
\* but the last has gone by, each with a broadcast that failed, and every
\* connection but the last has come with another protocol tag and was
\* dropped by its handler.
Dropped == [ Incoming("raw", "other/1") EXCEPT !.hpc = "done" ]

OrderInit ==
  /\ DaemonState_new
  /\ lpc = "select"
  /\ store = {}
  /\ now = 0
  /\ sigint = FALSE
  /\ nticks = MaxAnnounce - 1
  /\ lastBroadcast = [ok |-> FALSE, bytes |-> GossipMessage_to_bytes(BuildAnnouncement(0))]
  /\ leaveSent = {}
  /\ nAnnOk = 0
  /\ nrecv = 0
  /\ lastEvent = [ev |-> "none", afterSkip |-> FALSE]
  /\ announced = {}
  /\ upserted = {}
  /\ exitCause = "none"
  /\ sigObserved = FALSE
  /\ apc = "accept"
  /\ conns = [ i \in 1..(MaxConns - 1) |-> Dropped ]
  /\ ini = IniIdle
  /\ cli = Cli(FALSE)
  /\ TtlIdle
  /\ CodecIdle

OrderNext ==
  \/ ReceiveAnnounce
  \/ AnnounceTick
  \/ RawConnect
  \/ Accept
  \/ \E i \in 1..Len(conns) : HandlerHandshake(i)
  \/ \E i \in 1..Len(conns) : HandlerAcceptBi(i)
  \/ \E i \in 1..Len(conns) : HandlerReadLen(i)
  \/ \E i \in 1..Len(conns) : HandlerReadBody(i)

OrderSpec == OrderInit /\ [][OrderNext]_vars

\* The listener over a store whose upsert may return Err.
StoreErrNext ==
  \/ Tick
  \/ ReceiveAnnounce
  \/ ReceiveAnnounceStoreErr
  \/ ReceiveLeave
  \/ ReceiveUndecodable
  \/ ReceiveOther
  \/ ReceiveClosed
  \/ ReceiveError
  \/ StoreRunningFalse
  \/ NodeShutdown

StoreErrSpec == Init /\ [][StoreErrNext]_vars

\* The listener is a task of its own: once an arm of its select is ready it
\* is eventually polled, and the steps after the loop are straight-line code.
FairSpec ==
  /\ Spec
  /\ WF_vars(CtrlC)
  /\ WF_vars(StoreRunningFalse)
  /\ WF_vars(NodeShutdown)

(***************************************************************************)
(* Reading the history variables.                                          *)
(***************************************************************************)
EventDecode(e) == IF e.ev = "Received" THEN e.result ELSE DecodeError

IsAnnounceEvent(e) == EventDecode(e).ok /\ EventDecode(e).msg.type = "Announce"
IsLeaveEvent(e) == EventDecode(e).ok /\ EventDecode(e).msg.type = "Leave"

\* the listener has just taken an event off the receiver
Took == nrecv' = nrecv + 1

StoredIds == { p.node_id : p \in store }

(***************************************************************************)
(* Claims about the listener, the store and the shutdown sequence (Spec).  *)
(***************************************************************************)

\* C1: an Announcement carrying the daemon's own node id is discarded: the
\* step that takes it changes neither the store nor peers_discovered, and no
\* record of the store is ever keyed by the local node id.
C1_SelfFiltered ==
  /\ [](LocalId \notin StoredIds)
  /\ [][ (Took /\ IsAnnounceEvent(lastEvent')
            /\ EventDecode(lastEvent').msg.node_id = LocalId)
         => (store' = store /\ peers_discovered' = peers_discovered) ]_vars

\* a self-Announcement arrived after a peer had been recorded
C1_Witness ==
  /\ IsAnnounceEvent(lastEvent)
  /\ EventDecode(lastEvent).msg.node_id = LocalId
  /\ nrecv = 2
  /\ peers_discovered = 1
  /\ Cardinality(store) = 1

\* C2: the step that takes a LeaveNotice, for a stored or an unknown node
\* id, leaves the store and both counters as they were.
C2_LeaveChangesNothing ==
  [][ (Took /\ IsLeaveEvent(lastEvent'))
      => ( /\ store' = store
           /\ announcements_sent' = announcements_sent
           /\ peers_discovered' = peers_discovered ) ]_vars

\* a LeaveNotice arrived for a node id that has a record in the store
C2_Witness ==
  /\ IsLeaveEvent(lastEvent)
  /\ EventDecode(lastEvent).msg.node_id \in StoredIds

\* C3 (as claimed): whichever way the loop was left, a LeaveNotice carrying
\* the local node id was broadcast before running became false, and running
\* became false before the endpoint was torn down.
C3_LeaveOnEveryShutdown ==
  /\ (running = FALSE => LocalId \in leaveSent)
  /\ (lpc = "stopped" => running = FALSE)

C5_OnlySignalOrClose ==
  lpc # "select" => exitCause \in {"signal", "closed"}

\* C6: the store holds exactly one record for each non-self node id the
\* listener decoded an Announcement from and none for any other id, and
\* list(all) is as long as the set of node ids upserted.
C6_OneRecordPerNode ==
  /\ \A n \in NodeIds \cup StoredIds :
       Cardinality({ p \in store : p.node_id = n })
         = IF n \in announced \ {LocalId} THEN 1 ELSE 0
  /\ Len(list_all(store)) = Cardinality(upserted)
  /\ upserted = announced \ {LocalId}

\* two Announcements of one node id, differing in their fields, left one
\* record
C6_Witness ==
  /\ nrecv = 2
  /\ peers_discovered = 2
  /\ Cardinality(store) = 1
  /\ IsAnnounceEvent(lastEvent)
  /\ \E p \in store : p.name = EventDecode(lastEvent).msg.name /\ p.name = "beta"

\* C7: the step that takes an Announcement of another node leaves, under
\* that node id, a record with the Announcement's name, capabilities, ttl
\* and metadata and with last_seen the local clock's reading.
C7_RecordFromAnnouncement ==
  [][ (Took /\ IsAnnounceEvent(lastEvent')
         /\ EventDecode(lastEvent').msg.node_id # LocalId)
      => LET a == EventDecode(lastEvent').msg IN
         \E p \in store' :
           /\ p.node_id = a.node_id
           /\ p.name = a.name
           /\ p.capabilities = a.capabilities
           /\ p.ttl = a.ttl
           /\ p.metadata = a.metadata
           /\ p.last_seen = now ]_vars

\* a record whose last_seen is the local reading while the Announcement's
\* timestamp is a different number
C7_Witness ==
  /\ IsAnnounceEvent(lastEvent)
  /\ LET a == EventDecode(lastEvent).msg IN
     \E p \in store :
       /\ p.node_id = a.node_id
       /\ p.name = a.name
       /\ p.last_seen = now
       /\ now = 1
       /\ a.timestamp # now

\* C13: the step that takes a payload that does not decode, or an event that
\* is not Received, leaves the store and both counters as they were and the
\* daemon running with its listener in the loop, ready for the next event.
C13_UndecodableSkipped ==
  [][ (Took /\ Skipped(lastEvent'))
      => ( /\ store' = store
           /\ announcements_sent' = announcements_sent
           /\ peers_discovered' = peers_discovered
           /\ running' = TRUE
           /\ lpc' = "select" ) ]_vars

\* after a payload that did not decode the listener took an Announcement
\* and recorded the peer
C13_Witness ==
  /\ lastEvent.afterSkip
  /\ IsAnnounceEvent(lastEvent)
  /\ EventDecode(lastEvent).msg.node_id \in StoredIds
  /\ peers_discovered = 1
  /\ running

\* the record of the store s kept under node_id carries the fields of ann
Carries(s, ann) ==
  /\ Cardinality({ p \in s : p.node_id = ann.node_id }) = 1
  /\ \A p \in s :
       p.node_id = ann.node_id
         => /\ p.name = ann.name
            /\ p.capabilities = ann.capabilities
            /\ p.ttl = ann.ttl
            /\ p.metadata = ann.metadata

\* C17: the store changes only in a step in which the listener takes an
\* Announcement of another node, one Announcement a step; after that step
\* the one record under its node id carries that Announcement's fields and
\* the records of the other node ids are as before.  So of two Announcements
\* of one node id the later one taken is the one recorded, whatever the
\* announcer, the acceptor and the connection handlers do in between.
C17_LastAnnouncementWins ==
  /\ [][ store' # store
         => (Took /\ IsAnnounceEvent(lastEvent')
               /\ EventDecode(lastEvent').msg.node_id # LocalId) ]_vars
  /\ [][ (Took /\ IsAnnounceEvent(lastEvent')
            /\ EventDecode(lastEvent').msg.node_id # LocalId)
         => LET a == EventDecode(lastEvent').msg IN
            /\ Carries(store', a)
            /\ { p \in store' : p.node_id # a.node_id }
                 = { p \in store : p.node_id # a.node_id } ]_vars
  /\ [](IsAnnounceEvent(lastEvent) /\ EventDecode(lastEvent).msg.node_id # LocalId
          => Carries(store, EventDecode(lastEvent).msg))

\* the second of two Announcements of one node id replaced the record the
\* first had left, in a run in which the announcer has broadcast and a
\* handler has read a request
C17_Witness ==
  /\ IsAnnounceEvent(lastEvent)
  /\ lastEvent.replaced # {}
  /\ \A p \in lastEvent.replaced : p.name # EventDecode(lastEvent).msg.name
  /\ Carries(store, EventDecode(lastEvent).msg)
  /\ announcements_sent = 1
  /\ \E i \in 1..Len(conns) : conns[i].bodyRead

\* C19: both counters start at 0 and no step decreases them; running starts
\* true, is true as long as the listener has not passed the store after its
\* loop and false from then on; and once the daemon is stopped its state
\* changes no more.
C19_MonotoneCountersAndFlag ==
  /\ (announcements_sent = 0 /\ peers_discovered = 0 /\ running = TRUE)
  /\ [][ /\ announcements_sent' >= announcements_sent
         /\ peers_discovered' >= peers_discovered ]_vars
  /\ [](running = (lpc \in {"select", "exited"}))
  /\ [][ running = FALSE => running' = FALSE ]_vars
  /\ [][ lpc = "stopped"
         => UNCHANGED << lpc, running, announcements_sent, peers_discovered,
                         store >> ]_vars

\* the daemon is stopped with running false after both counters had grown
C19_Witness ==
  /\ lpc = "stopped"
  /\ running = FALSE
  /\ announcements_sent = 2
  /\ peers_discovered = 2

\* the listener has just processed an Announcement of another node
Processed ==
  /\ Took
  /\ IsAnnounceEvent(lastEvent')
  /\ EventDecode(lastEvent').msg.node_id # LocalId

\* C20: peers_discovered grows by exactly 1 in every step in which the
\* listener processes an Announcement of another node, whether its node id
\* is in the store already and whether store::upsert succeeded, and it
\* changes in no other step; it is never less than the number of records
\* in the store, which started empty.
C20_CountsProcessed ==
  /\ [][ Processed => peers_discovered' = peers_discovered + 1 ]_vars
  /\ [][ peers_discovered' # peers_discovered => Processed ]_vars
  /\ [](peers_discovered >= Cardinality(store))
  /\ [](peers_discovered <= nrecv)

\* a second Announcement of a stored node id was counted although
\* store::upsert returned Err and the record stayed as the first left it
C20_Witness ==
  /\ IsAnnounceEvent(lastEvent)
  /\ ~lastEvent.stored
  /\ lastEvent.replaced # {}
  /\ lastEvent.replaced = { p \in store : p.node_id = EventDecode(lastEvent).msg.node_id }
  /\ peers_discovered = 2
  /\ Cardinality(store) = 1

\* the announcer has just seen a tick of its timer
Ticked == nticks' = nticks + 1

\* C14: a tick of the timer makes one broadcast, of an Announcement built at
\* that moment with the local node id; announcements_sent grows by 1 when
\* the broadcast succeeded and stays when it failed; a failed broadcast
\* leaves the next tick enabled; and announcements_sent is the number of
\* Announcement broadcasts that succeeded.
C14_SentCountsSuccesses ==
  /\ [](announcements_sent = nAnnOk)
  /\ []((lpc # "stopped" /\ nticks < MaxAnnounce) => ENABLED AnnounceTick)
  /\ [][ Ticked
         => /\ lastBroadcast'.bytes = GossipMessage_to_bytes(BuildAnnouncement(now))
            /\ lastBroadcast'.bytes[1] = "Announce"
            /\ lastBroadcast'.bytes[2] = LocalId
            /\ lastBroadcast'.bytes[8] = now
            /\ announcements_sent'
                 = announcements_sent + (IF lastBroadcast'.ok THEN 1 ELSE 0) ]_vars

\* a broadcast that failed was followed by one that succeeded
C14_Witness ==
  /\ nticks = 2
  /\ announcements_sent = 1
  /\ lastBroadcast.ok
  /\ lastBroadcast.bytes[1] = "Announce"

\* daemon.rs 90-99, 142: the listener has attempted the broadcast of its
\* LeaveNotice, or has stored false into running
ShuttingDown == sigObserved \/ running = FALSE

\* C21 (as claimed): once the daemon is shutting down the announcer makes no
\* further broadcast and announcements_sent changes no more, however its
\* timer tick falls among the listener's steps after the loop.
C21_QuietAfterShuttingDown ==
  [][ ShuttingDown
      => /\ ~Ticked
         /\ announcements_sent' = announcements_sent ]_vars

(***************************************************************************)
(* Claim about is_expired (TtlSpec).                                       *)
(***************************************************************************)
\* x extended by a limb above its most significant one
Wide(top, x) == << top >> \o x

\* C8 (as claimed): for every last_seen, ttl and now of 64 bits, is_expired
\* returns, and returns true exactly when now > last_seen + ttl with the sum
\* taken in unbounded arithmetic.
C8_ExpiredIffPastTtl ==
  verdict.called
    => LET a == AddU64(probe.last_seen, probe.ttl) IN
       /\ ~verdict.panic
       /\ verdict.value <=> GtLimbs(Wide(0, probe.now), Wide(a.carry, a.sum))

(***************************************************************************)
(* Claim about the encoding (CodecSpec).                                   *)
(***************************************************************************)
\* C15 (as claimed): for every GossipMessage and every DirectMessage m,
\* from_bytes of to_bytes of m succeeds and is m.
C15_RoundTrip ==
  decoded.called => (decoded.result.ok /\ decoded.result.msg = sample.msg)

(***************************************************************************)
(* Claims about the direct-message exchange (MsgSpec).                     *)
(***************************************************************************)
Conns == { conns[i] : i \in 1..Len(conns) }

\* C9: a handler that has read a length prefix has rejected it exactly when
\* it exceeds 1048576; having rejected it, it is done without having read
\* the payload or written a frame; and a `send` whose request is longer than
\* that never holds a response, its wait ending at 5 seconds at the latest.
C9_OversizedRejected ==
  /\ \A c \in Conns :
       /\ c.len # -1 => (c.rejected <=> c.len > 1048576)
       /\ c.rejected
            => (c.hpc = "done" /\ ~c.bodyRead /\ c.buf = NoBytes /\ c.reply = << >>)
  /\ ini.bytes.size > 1048576 => ini.response = None
  /\ ini.waited <= 5
  /\ (ini.pc = "read" /\ ini.waited = 5) => ENABLED SendTimeout

\* `send` has ended after the handler rejected its request of 1048577
\* bytes, and a request of exactly 1048576 bytes was read on another
\* connection
C9_Witness ==
  /\ ini.pc = "exit"
  /\ ini.status = "sent"
  /\ ini.response = None
  /\ ini.conn # 0
  /\ conns[ini.conn].rejected
  /\ conns[ini.conn].len = 1048577
  /\ \E c \in Conns : c.len = 1048576 /\ c.bodyRead /\ c.reply # << >>

\* the conditions under which the handler of c acknowledges
Acknowledged(c) ==
  /\ c.alpn = "clawnet/msg/1"
  /\ c.bodyRead
  /\ c.buf.size = c.len
  /\ DirectMessage_from_bytes(c.buf).ok

\* C10 (as claimed): a handler has written a frame only if the protocol tag is
\* "clawnet/msg/1", the whole request was read and it decodes; a handler that
\* has run to its end under these conditions has written one; and what it
\* has written is one frame whose length prefix is the length of its bytes,
\* which decode to a DirectMessage with content "received" from the local
\* node id.
C10_ReplyIffDecoded ==
  \A c \in Conns :
    /\ c.reply # << >> => Acknowledged(c)
    /\ (c.hpc = "done" /\ Acknowledged(c)) => c.reply # << >>
    /\ c.reply # << >>
         => /\ Len(c.reply) = 1
            /\ c.reply[1].len = c.reply[1].bytes.size
            /\ DirectMessage_from_bytes(c.reply[1].bytes).ok
            /\ DirectMessage_from_bytes(c.reply[1].bytes).msg.content = "received"
            /\ DirectMessage_from_bytes(c.reply[1].bytes).msg.from = LocalId

\* a connection is waiting to be accepted
Waiting == \E i \in 1..Len(conns) : conns[i].hpc = "queued"

\* the handler of connection i ends in this step
Ends(i) == conns[i].hpc # "done" /\ conns'[i].hpc = "done"

\* C18: the step in which a handler ends, for whatever reason, changes
\* nothing but its own connection: the acceptor, every other connection and
\* the daemon are as before; while the endpoint is open the acceptor is in
\* its loop and accepts a waiting connection whatever the handlers spawned
\* before are doing; and the acceptor has ended only with the endpoint
\* closed.
C18_AcceptorIsolation ==
  /\ [][ \A i \in 1..Len(conns) :
           Ends(i)
             => /\ apc' = apc
                /\ Len(conns') = Len(conns)
                /\ \A j \in 1..Len(conns) : j # i => conns'[j] = conns[j]
                /\ running' = running
                /\ lpc' = lpc ]_vars
  /\ [](EndpointOpen => apc = "accept")
  /\ []((EndpointOpen /\ Waiting) => ENABLED Accept)
  /\ [](apc = "ended" => ~EndpointOpen)

\* the handler of the first connection is blocked on a `send` that has
\* opened no stream, and the connection that came after it was accepted
\* and ended in a panic of its handler
C18_Witness ==
  /\ Len(conns) = 2
  /\ conns[1].client = "send"
  /\ conns[1].hpc = "accept_bi"
  /\ ~ini.wroteLen
  /\ ~ini.closed
  /\ ~ENABLED HandlerAcceptBi(1)
  /\ conns[2].hpc = "done"
  /\ conns[2].panicked
  /\ apc = "accept"
  /\ running

(***************************************************************************)
(* Claims about the `send` command and the exit of the process (SendSpec). *)
(***************************************************************************)
\* the request was written whole and the write side half-closed
RequestWritten ==
  ini.wroteLen /\ ini.wroteBody /\ ini.failedAt \notin {"write_body", "finish"}

\* the wait for the response ended without a response that decodes
NoUsableResponse ==
  \/ ini.readEnd \in {"timeout", "failed"}
  \/ /\ ini.readEnd = "frame"
     /\ \/ ini.frame.len > 1048576
        \/ ~DirectMessage_from_bytes(ini.frame.bytes).ok

\* C11: once the request is written and the write side half-closed, the wait
\* for the response always ends in the output step and never in an error;
\* a timeout at 5 seconds, a failed read, a response declared longer than
\* 1 MiB and a response that does not decode leave the response absent; and
\* the command ends with status "sent", an error being possible only from
\* the shutdown of its own node after the output.
C11_SentWhateverRead ==
  /\ (ini.pc = "read" => RequestWritten)
  /\ (ini.readEnd # "" => (ini.pc \in {"print", "exit"} /\ RequestWritten))
  /\ (NoUsableResponse => ini.response = << >>)
  /\ (ini.readEnd = "timeout" => ini.waited = 5)
  /\ ((ini.pc = "exit" /\ ini.readEnd # "")
        => /\ ini.status = "sent"
           /\ ini.failedAt \in {"", "shutdown"}
           /\ (ini.failedAt = "" => ini.exit = 0))

\* `send` ended with status "sent", exit code 0 and no response after the
\* peer answered with a frame declaring more than 1 MiB
C11_Witness ==
  /\ ini.pc = "exit"
  /\ ini.status = "sent"
  /\ ini.exit = 0
  /\ ini.readEnd = "frame"
  /\ ini.frame.len > 1048576
  /\ ini.response = << >>

C16_ExitCodeAndErrorFormat ==
  ini.pc = "exit"
    => /\ ini.exit = (IF ini.failedAt # "" THEN 1 ELSE 0)
       /\ ini.errOut = (IF ini.failedAt = "" THEN ""
                        ELSE IF cli.json THEN "json" ELSE "text")

====
